---- MODULE Spec2Model ----
(***************************************************************************)
(* Payment-status reconciliation of the order/payment backend.             *)
(*                                                                         *)
(* The shared store holds the payments table and the orders table.  Every  *)
(* handler is a sequence of store operations (one SELECT or one            *)
(* Save/INSERT/UPDATE each) and outbound gateway calls; a running handler   *)
(* is a task record whose pc names the next such operation, so that        *)
(* concurrent handlers interleave exactly at the store and gateway          *)
(* operations, as goroutines do.  Goroutines are anonymous: the running    *)
(* tasks form a bag.                                                       *)
(*                                                                         *)
(* Abstractions: the order number and the order UUID of an order are the   *)
(* same value; the raw gateway payload (a JSON text) is the record of the  *)
(* one key that is read back from it, fraud_status; the amounts (except   *)
(* in SpecGross) and the gorm autoUpdateTime column are left out; time is  *)
(* counted in ticks of 24                                                  *)
(* hours; the store itself never fails, except for the save of an order   *)
(* in SpecOrderFail; a handler that returns a payment is recorded with the *)
(* id of the payment it returns; a SELECT without ORDER BY returns its     *)
(* rows in any order.                                                      *)
(*                                                                         *)
(* Specifications: Spec runs webhooks, synchronous checks, the Poller and  *)
(* UpdateOrderStatus on one charged payment; SpecAdvance runs N calls of   *)
(* UpdatePaymentStatus that all report success; SpecMerge runs one call of *)
(* UpdatePaymentStatus twice in a row on any stored payment; SpecSweep     *)
(* runs the Poller over three payments while the status API does not       *)
(* answer; SpecCreate runs CreatePayment, concurrent with itself, with     *)
(* CreateOrder and with webhooks, from an order without a payment (an      *)
(* order CreateOrder inserts has no payment before CreatePayment is called *)
(* for it, so the other specifications leave CreateOrder out); SpecWebhook *)
(* runs the two                                                            *)
(* HTTP handlers of the webhook endpoint; SpecResolve runs the Poller and  *)
(* its ticker alone on a payment that was created; SpecMapper calls the    *)
(* status mapper on its own; SpecOrderFail runs one call of                *)
(* UpdatePaymentStatus whose order may be missing and whose order save may *)
(* fail; SpecSync runs CheckPaymentStatus, concurrent with itself and with *)
(* webhooks; SpecIsolate is SpecSweep with the fetched and the visited     *)
(* payments of each sweep written down; SpecGross builds the amounts of    *)
(* the charge request of CreatePayment; SpecConverge runs the Poller, with *)
(* fair scheduling, on a payment the gateway has settled, while earlier    *)
(* notifications may still arrive; SpecLimiter runs one sweep, with fair   *)
(* scheduling, over six payments whose checks fail or change nothing.      *)
(***************************************************************************)
EXTENDS Integers, Sequences, FiniteSets, Bags, TLC

VARIABLES
    payments,     \* the payments table: a sequence of rows, row i has id i
    orders,       \* the orders table: order id -> workflow status
    tasks,        \* the running handlers: a bag of task records
    now,          \* the clock
    pollerPc,     \* startBackgroundPaymentChecker: "warmup", "idle", "fetch",
                  \* "sweep", "acquire", "stopped"
    sweepList,    \* checkAllPendingPayments: the fetched rows not yet visited
    semaphore,    \* checkAllPendingPayments: tokens held in the sweep's channel
    pollerLast,   \* history: what the last visit of a sweep did
    orderWrites,  \* history: number of order rows saved by UpdatePaymentStatus
    before,       \* history: the store when the observed call sequence began
    afterFirst,   \* history: the store when the first observed call returned
    http,         \* history: the requests the webhook endpoint has received,
                  \* each with the response sent for it
    ticker,       \* the ticks waiting in the channel of the Poller's ticker
                  \* (followed in SpecResolve; elsewhere a sweep may start
                  \* at any time)
    calls         \* history: the calls of mapMidtransStatusToPaymentStatus
                  \* made on their own, each with its argument and result

store == <<payments, orders>>
poller == <<pollerPc, sweepList, semaphore, pollerLast>>
hist == <<orderWrites, before, afterFirst, http, ticker, calls>>
vars == <<payments, orders, tasks, now, pollerPc, sweepList, semaphore,
          pollerLast, orderWrites, before, afterFirst, http, ticker,
          calls>>

----------------------------------------------------------------------------
(* Bounds of the model.                                                    *)

MaxTime == 2          \* the clock runs 0..MaxTime
MaxTasks == 2         \* handlers and goroutines running at once
MaxRecon == 2         \* concurrent reconciliations of the at-most-once scenario

(* Program constants.                                                      *)

SemaphoreCap == 5     \* make(chan struct{}, 5)
PollWindow == 2       \* 48 hours, in ticks of 24 hours

----------------------------------------------------------------------------
(* Value domains.                                                          *)

OrderIDs == {"ORD-1"}
UnknownOrder == "ORD-X"

PaymentStatuses == {"pending", "success", "failed", "cancelled", "expired"}
TerminalStatuses == PaymentStatuses \ {"pending"}
OrderStatuses == {"pending", "processing", "shipped", "delivered", "cancelled"}

\* transaction_status strings of the gateway; "refund" stands for every
\* string the mapper does not know, "" for an absent key.
GatewayStatuses == {"pending", "settlement", "capture", "deny", "cancel",
                    "expire", "refund", ""}

Times == 0..MaxTime
NoTime == {}                         \* a nil *time.Time
SomeTimes == {{t} : t \in Times}     \* a parsed expiry_time

NoRaw == <<>>                        \* a nil / empty MidtransResponse
Payload(fraud) == <<[fraud |-> fraud]>>

\* A row of the payments table.
Row(id, order, txid, status, va, bank, qr, expiry, raw, fraud, created) ==
    [id |-> id, orderID |-> order, txid |-> txid, status |-> status,
     va |-> va, bank |-> bank, qr |-> qr, expiry |-> expiry, raw |-> raw,
     fraud |-> fraud, createdAt |-> created]

NoRow == Row(0, "", "", "pending", "", "", "", NoTime, NoRaw, "", 0)

\* The arguments of UpdatePaymentStatus.
Obs(order, status, txid, va, bank, qr, expiry, raw) ==
    [order |-> order, status |-> status, txid |-> txid, va |-> va,
     bank |-> bank, qr |-> qr, expiry |-> expiry, raw |-> raw]

NoObs == Obs("", "", "", "", "", "", NoTime, NoRaw)

\* A running handler: kind "webhook" (HandleMidtransCallback in a goroutine
\* of its own), "callback" (HandleMidtransCallback inside the HTTP handler
\* of request number req), "poll" (the goroutine of a sweep), "sync"
\* (CheckPaymentStatus) or "create" (CreatePayment).  pc is the next operation; order, pid, obs and row are
\* its locals; err and note are what it returns; sem says whether a poll
\* goroutine holds a token of the running sweep's semaphore ("cur") or of
\* an earlier sweep's ("old"); had records whether CreatePayment was called
\* when the order already had a payment.
Task(kind, pc, order, pid, obs, row, err, note, sem, had, req) ==
    [kind |-> kind, pc |-> pc, order |-> order, pid |-> pid, obs |-> obs,
     row |-> row, err |-> err, note |-> note, sem |-> sem, had |-> had,
     req |-> req]

NewTask(kind, pc, order, pid, obs) ==
    Task(kind, pc, order, pid, obs, NoRow, "", "", "none", FALSE, 0)

\* A handler that has reached its return statement, returning err and, when
\* it returns a payment, the payment row.
RetWith(t, row, err, note) ==
    Task(t.kind, "ret", t.order, row.id, NoObs, NoRow, err, note, t.sem, t.had,
         t.req)

Ret(t, err, note) == RetWith(t, NoRow, err, note)

TaskSet == BagToSet(tasks)
Replace(t, u) == (tasks (-) SetToBag({t})) (+) SetToBag({u})
Remove(t) == tasks (-) SetToBag({t})
Add(u) == tasks (+) SetToBag({u})
Running == BagCardinality(tasks)

----------------------------------------------------------------------------
(* The store.                                                              *)

Min(S) == CHOOSE x \in S : \A y \in S : x <= y

\* SELECT ... WHERE order_id = ? ... First: NoRow when there is none.
FindByOrderNumber(orderNumber) ==
    LET ids == {i \in DOMAIN payments : payments[i].orderID = orderNumber}
    IN IF ids = {} THEN NoRow ELSE payments[Min(ids)]

\* SELECT ... WHERE order_uuid = ? ... First.
FindByOrderID(orderID) == FindByOrderNumber(orderID)

\* SELECT ... WHERE id = ? ... First.
FindByID(id) == IF id \in DOMAIN payments THEN payments[id] ELSE NoRow

Found(row) == row.id # 0

\* db.Save: every column of the row is written, by primary key.
Update(row) == [payments EXCEPT ![row.id] = row]

\* The gateway's status vocabulary to the canonical status.
\* mapMidtransStatusToPaymentStatus with a default of failed.
mapMidtransStatusDefaultFailed(status) ==
    CASE status = "pending" -> "pending"
      [] status \in {"settlement", "capture"} -> "success"
      [] status = "deny" -> "failed"
      [] status = "cancel" -> "cancelled"
      [] status = "expire" -> "expired"
      [] OTHER -> "failed"

mapMidtransStatusToPaymentStatus(status) ==
    CASE status = "pending" -> "pending"
      [] status \in {"settlement", "capture"} -> "success"
      [] status = "deny" -> "failed"
      [] status = "cancel" -> "cancelled"
      [] status = "expire" -> "expired"
      [] OTHER -> "pending"

\* fraud_status read back from the raw payload, "" when there is none.
FraudOf(raw) == IF raw = NoRaw THEN "" ELSE raw[1].fraud

\* MergePayment with the VA number and the bank code stored in each other's
\* column.
MergePaymentSwapped(payment, o) ==
    LET qr == IF o.qr = "" /\ payment.qr # "" THEN payment.qr ELSE o.qr
        va == IF o.va = "" /\ payment.va # "" THEN payment.va ELSE o.va
        bank == IF o.bank = "" /\ payment.bank # "" THEN payment.bank ELSE o.bank
    IN [payment EXCEPT
          !.status = mapMidtransStatusToPaymentStatus(o.status),
          !.txid = IF o.txid # "" THEN o.txid ELSE @,
          !.va = IF bank # "" THEN bank ELSE @,
          !.bank = IF va # "" THEN va ELSE @,
          !.qr = IF qr # "" THEN qr ELSE @,
          !.expiry = IF o.expiry # NoTime THEN o.expiry ELSE @,
          !.raw = IF o.raw # NoRaw THEN o.raw ELSE @,
          !.fraud = IF o.raw # NoRaw /\ FraudOf(o.raw) # ""
                    THEN FraudOf(o.raw) ELSE @]

\* MergePayment without the preservation of the stored values.
MergePaymentNoPreserve(payment, o) ==
    [payment EXCEPT
       !.status = mapMidtransStatusToPaymentStatus(o.status),
       !.txid = IF o.txid # "" THEN o.txid ELSE @,
       !.va = o.va,
       !.bank = o.bank,
       !.qr = o.qr,
       !.expiry = IF o.expiry # NoTime THEN o.expiry ELSE @,
       !.raw = IF o.raw # NoRaw THEN o.raw ELSE @,
       !.fraud = IF o.raw # NoRaw /\ FraudOf(o.raw) # ""
                 THEN FraudOf(o.raw) ELSE @]

\* UpdatePaymentStatus, from the loaded payment to the row it saves.
MergePayment(payment, o) ==
    LET qr == IF o.qr = "" /\ payment.qr # "" THEN payment.qr ELSE o.qr
        va == IF o.va = "" /\ payment.va # "" THEN payment.va ELSE o.va
        bank == IF o.bank = "" /\ payment.bank # "" THEN payment.bank ELSE o.bank
    IN [payment EXCEPT
          !.status = mapMidtransStatusToPaymentStatus(o.status),
          !.txid = IF o.txid # "" THEN o.txid ELSE @,
          !.va = IF va # "" THEN va ELSE @,
          !.bank = IF bank # "" THEN bank ELSE @,
          !.qr = IF qr # "" THEN qr ELSE @,
          !.expiry = IF o.expiry # NoTime THEN o.expiry ELSE @,
          !.raw = IF o.raw # NoRaw THEN o.raw ELSE @,
          !.fraud = IF o.raw # NoRaw /\ FraudOf(o.raw) # ""
                    THEN FraudOf(o.raw) ELSE @]

----------------------------------------------------------------------------
(* UpdatePaymentStatus, one store operation per step.                      *)

\* Where a handler goes when the CheckPaymentStatusFromMidtrans or
\* UpdatePaymentStatus it runs has returned.
Return(t, err, note) ==
    IF t.kind = "sync"
    THEN Task(t.kind, "cs_reload", t.order, t.pid, NoObs, NoRow, err, note,
              t.sem, t.had, t.req)
    ELSE Ret(t, err, note)

\* UpFind with a missing payment passed over in silence.
UpFindLenient(t) ==
    /\ t.pc = "up_find"
    /\ LET payment == FindByOrderNumber(t.obs.order)
       IN IF ~Found(payment)
          THEN tasks' = Replace(t, Return(t, "", "notfound"))
          ELSE tasks' = Replace(t, [t EXCEPT !.pc = "up_save",
                                      !.obs = NoObs,
                                      !.row = MergePayment(payment, t.obs)])
    /\ UNCHANGED <<store, now, poller>>

\* paymentRepo.FindByOrderNumber, then the merge of the observation.
UpFind(t) ==
    /\ t.pc = "up_find"
    /\ LET payment == FindByOrderNumber(t.obs.order)
       IN IF ~Found(payment)
          THEN tasks' = Replace(t, Return(t, "payment not found", "notfound"))
          ELSE tasks' = Replace(t, [t EXCEPT !.pc = "up_save",
                                      !.obs = NoObs,
                                      !.row = MergePayment(payment, t.obs)])
    /\ UNCHANGED <<store, now, poller>>

\* paymentRepo.Update, then the branch on the new status.
UpSave(t) ==
    /\ t.pc = "up_save"
    /\ payments' = Update(t.row)
    /\ tasks' = Replace(t, IF t.row.status = "success"
                           THEN [t EXCEPT !.pc = "up_order_find", !.row = NoRow,
                                          !.order = t.row.orderID]
                           ELSE Return(t, "", "updated"))
    /\ UNCHANGED <<orders, now, poller>>

\* orderRepo.FindByID and the test order.Status == "pending".
UpOrderFind(t) ==
    /\ t.pc = "up_order_find"
    /\ tasks' = Replace(t, IF t.order \in DOMAIN orders
                              /\ orders[t.order] = "pending"
                           THEN [t EXCEPT !.pc = "up_order_save"]
                           ELSE Return(t, "", "updated"))
    /\ UNCHANGED <<store, now, poller>>

\* orderRepo.Update of the order loaded before, its status set to processing.
UpOrderSave(t) ==
    /\ t.pc = "up_order_save"
    /\ orders' = [orders EXCEPT ![t.order] = "processing"]
    /\ tasks' = Replace(t, Return(t, "", "advanced"))
    /\ UNCHANGED <<payments, now, poller>>

\* UpOrderSaveError with the error of orderRepo.Update handed to the caller.
UpOrderSaveErrorReturned(t) ==
    /\ t.pc = "up_order_save"
    /\ tasks' = Replace(t, Return(t, "order update failed", "ordersavefailed"))
    /\ UNCHANGED <<store, now, poller>>

\* orderRepo.Update returns an error: the order row is not written, the
\* error is logged and UpdatePaymentStatus returns nil.
UpOrderSaveError(t) ==
    /\ t.pc = "up_order_save"
    /\ tasks' = Replace(t, Return(t, "", "ordersavefailed"))
    /\ UNCHANGED <<store, now, poller>>

UpdatePaymentStatus(t) ==
    UpFind(t) \/ UpSave(t) \/ UpOrderFind(t) \/ UpOrderSave(t)

----------------------------------------------------------------------------
(* HandleMidtransCallback.                                                 *)

\* A key that is absent from the notification, or whose value is not a
\* string.
Missing == "<missing>"

\* An inbound notification; qr and expiry are what the handler extracts
\* from qr_code_url / actions and from expiry_time.
Notification(order, txid, status, va, bank, qr, expiry, fraud) ==
    [order_id |-> order, transaction_id |-> txid, status |-> status,
     va |-> va, bank |-> bank, qr |-> qr, expiry |-> expiry, fraud |-> fraud]

\* HandleMidtransCallback without the test of transaction_id.
HandleMidtransCallbackUnchecked(n) ==
    LET t == NewTask("webhook", "up_find", "", 0, NoObs)
    IN IF n.order_id = Missing
       THEN Ret(t, "invalid notification: missing order_id", "invalid")
       ELSE [t EXCEPT !.obs = Obs(n.order_id, n.status, n.transaction_id,
                                   n.va, n.bank, n.qr, n.expiry,
                                   Payload(n.fraud))]

\* The handler up to its call of UpdatePaymentStatus: the two required keys
\* are checked, the arguments are extracted.
HandleMidtransCallback(n) ==
    LET t == NewTask("webhook", "up_find", "", 0, NoObs)
    IN IF n.order_id = Missing
       THEN Ret(t, "invalid notification: missing order_id", "invalid")
       ELSE IF n.transaction_id = Missing
       THEN Ret(t, "invalid notification: missing transaction_id", "invalid")
       ELSE [t EXCEPT !.obs = Obs(n.order_id, n.status, n.transaction_id,
                                   n.va, n.bank, n.qr, n.expiry,
                                   Payload(n.fraud))]

\* A notification arrives and its handler starts.
Webhook(n) ==
    /\ Running < MaxTasks
    /\ tasks' = Add(HandleMidtransCallback(n))
    /\ UNCHANGED <<store, now, poller>>

----------------------------------------------------------------------------
(* CheckPaymentStatusFromMidtrans.                                         *)

\* A status response of the gateway (or a charge response): qr is what the
\* caller extracts from actions / qr_code_url, expiry the parsed expiry_time.
Response(status, txid, va, bank, qr, expiry, fraud) ==
    [status |-> status, txid |-> txid, va |-> va, bank |-> bank, qr |-> qr,
     expiry |-> expiry, fraud |-> fraud]

GatewayFailure == Response("<error>", "", "", "", "", NoTime, "")

\* CfFind without the test of the stored status.
CfFindNoGuard(t) ==
    /\ t.pc = "cf_find"
    /\ LET payment == FindByOrderNumber(t.order)
       IN tasks' = Replace(t,
            IF ~Found(payment) THEN Return(t, "payment not found", "notfound")
            ELSE IF payment.txid = ""
                 THEN Return(t, "no transaction ID for payment", "notxid")
            ELSE [t EXCEPT !.pc = "cf_call",
                           !.row = [NoRow EXCEPT !.txid = payment.txid,
                                                 !.qr = payment.qr]])
    /\ UNCHANGED <<store, now, poller>>

\* paymentRepo.FindByOrderNumber and the two guards before the call.  Of
\* the loaded payment only the transaction id and the QR URL are used later.
CfFind(t) ==
    /\ t.pc = "cf_find"
    /\ LET payment == FindByOrderNumber(t.order)
       IN tasks' = Replace(t,
            IF ~Found(payment) THEN Return(t, "payment not found", "notfound")
            ELSE IF payment.status = "success" THEN Return(t, "", "skipped")
            ELSE IF payment.txid = ""
                 THEN Return(t, "no transaction ID for payment", "notxid")
            ELSE [t EXCEPT !.pc = "cf_call",
                           !.row = [NoRow EXCEPT !.txid = payment.txid,
                                                 !.qr = payment.qr]])
    /\ UNCHANGED <<store, now, poller>>

\* CfCall with a status call that fails taken for a failed payment.
CfCallMarksFailed(t, r) ==
    /\ t.pc = "cf_call"
    /\ IF r = GatewayFailure
       THEN /\ tasks' = Replace(t, Return(t, "failed to call Midtrans API",
                                          "gwerror"))
            /\ payments' = Update([FindByOrderNumber(t.order)
                                     EXCEPT !.status = "failed"])
       ELSE /\ tasks' = Replace(t,
                 IF r.status = ""
                 THEN Return(t, "no transaction_status in response", "gwerror")
                 ELSE [t EXCEPT !.pc = "up_find", !.row = NoRow,
                         !.obs = Obs(t.order, r.status, r.txid, r.va, r.bank,
                                     IF r.qr = "" /\ t.row.qr # "" THEN t.row.qr
                                                                   ELSE r.qr,
                                     r.expiry, Payload(r.fraud))])
            /\ UNCHANGED payments
    /\ UNCHANGED <<orders, now, poller>>

\* The status call returns r: a failure (transport error, non-200, body
\* that does not parse, no transaction_status) ends the check; otherwise
\* the arguments of UpdatePaymentStatus are extracted.
CfCall(t, r) ==
    /\ t.pc = "cf_call"
    /\ tasks' = Replace(t,
         IF r = GatewayFailure
         THEN Return(t, "failed to call Midtrans API", "gwerror")
         ELSE IF r.status = ""
         THEN Return(t, "no transaction_status in response", "gwerror")
         ELSE [t EXCEPT !.pc = "up_find", !.row = NoRow,
                 !.obs = Obs(t.order, r.status, r.txid, r.va, r.bank,
                             IF r.qr = "" /\ t.row.qr # "" THEN t.row.qr
                                                           ELSE r.qr,
                             r.expiry, Payload(r.fraud))])
    /\ UNCHANGED <<store, now, poller>>

----------------------------------------------------------------------------
(* CheckPaymentStatus.                                                     *)

SyncCheck(id) ==
    /\ Running < MaxTasks
    /\ tasks' = Add(NewTask("sync", "cs_find", "", id, NoObs))
    /\ UNCHANGED <<store, now, poller>>

\* CsFind without the test of the stored status.
CsFindAnyStatus(t) ==
    /\ t.pc = "cs_find"
    /\ LET payment == FindByID(t.pid)
       IN tasks' = Replace(t,
            IF ~Found(payment) THEN Ret(t, "record not found", "notfound")
            ELSE IF payment.txid # ""
                 THEN [t EXCEPT !.pc = "cf_find", !.order = payment.orderID]
            ELSE RetWith(t, payment, "", "returned"))
    /\ UNCHANGED <<store, now, poller>>

\* paymentRepo.FindByID and the test that decides on a gateway re-check.
CsFind(t) ==
    /\ t.pc = "cs_find"
    /\ LET payment == FindByID(t.pid)
       IN tasks' = Replace(t,
            IF ~Found(payment) THEN Ret(t, "record not found", "notfound")
            ELSE IF payment.txid # "" /\ payment.status = "pending"
                 THEN [t EXCEPT !.pc = "cf_find", !.order = payment.orderID]
            ELSE RetWith(t, payment, "", "returned"))
    /\ UNCHANGED <<store, now, poller>>

\* CsReload with the error of the re-check handed to the caller.
CsReloadStrict(t) ==
    /\ t.pc = "cs_reload"
    /\ tasks' = Replace(t, RetWith(t, FindByID(t.pid), t.err, t.note))
    /\ UNCHANGED <<store, now, poller>>

\* The reload after the re-check, whose error is only logged.
CsReload(t) ==
    /\ t.pc = "cs_reload"
    /\ tasks' = Replace(t, RetWith(t, FindByID(t.pid), "", t.note))
    /\ UNCHANGED <<store, now, poller>>

----------------------------------------------------------------------------
(* CreatePayment.                                                          *)

CreatePayment(orderID) ==
    /\ Running < MaxTasks
    /\ tasks' = Add([NewTask("create", "cp_order", orderID, 0, NoObs)
                        EXCEPT !.had = Found(FindByOrderID(orderID))])
    /\ UNCHANGED <<store, now, poller>>

\* orderRepo.FindByID: the SELECT of the order.
CpOrderFind(t) ==
    /\ t.pc = "cp_order"
    /\ tasks' = Replace(t,
            IF t.order \notin DOMAIN orders
            THEN Ret(t, "order not found", "noorder")
            ELSE [t EXCEPT !.pc = "cp_find"])
    /\ UNCHANGED <<store, now, poller>>

\* paymentRepo.FindByOrderID: the SELECT of the payment of the order.
CpFind(t) ==
    /\ t.pc = "cp_find"
    /\ LET existingPayment == FindByOrderID(t.order)
       IN tasks' = Replace(t,
            IF Found(existingPayment)
            THEN RetWith(t, existingPayment, "", "existing")
            ELSE [t EXCEPT !.pc = "cp_create"])
    /\ UNCHANGED <<store, now, poller>>

\* UniqueViolation for a column without the unique index.
UniqueViolationNever(orderNumber) == FALSE

\* The INSERT is refused when a row with this order_id exists (uniqueIndex).
UniqueViolation(orderNumber) ==
    \E i \in DOMAIN payments : payments[i].orderID = orderNumber

\* paymentRepo.Create of the pending payment.
CpCreate(t) ==
    /\ t.pc = "cp_create"
    /\ IF UniqueViolation(t.order)
       THEN /\ tasks' = Replace(t, Ret(t, "failed to create payment", "duplicate"))
            /\ UNCHANGED payments
       ELSE LET payment == Row(Len(payments) + 1, t.order, "", "pending", "",
                               "", "", NoTime, NoRaw, "", now)
            IN /\ payments' = Append(payments, payment)
               /\ tasks' = Replace(t, [t EXCEPT !.pc = "cp_charge",
                                                !.pid = payment.id,
                                                !.row = payment])
    /\ UNCHANGED <<orders, now, poller>>

HttpError == Response("<http>", "", "", "", "", NoTime, "")

\* updatePaymentFields, from the loaded payment to the row it saves.
updatePaymentFields(payment, r) ==
    [payment EXCEPT
       !.txid = r.txid,
       !.status = mapMidtransStatusToPaymentStatus(r.status),
       !.fraud = IF r.fraud # "" THEN r.fraud ELSE @,
       !.raw = Payload(r.fraud),
       !.va = IF r.va # "" THEN r.va ELSE @,
       !.bank = IF r.bank # "" THEN r.bank ELSE @,
       !.qr = IF r.qr # "" THEN r.qr ELSE @,
       !.expiry = IF r.expiry # NoTime THEN r.expiry ELSE @]

\* CpCharge with a non-2xx answer reported to the caller as an error.
CpChargeStrict(t, r) ==
    /\ t.pc = "cp_charge"
    /\ IF r = GatewayFailure
       THEN /\ tasks' = Replace(t, RetWith(t, t.row, "", "degraded"))
            /\ UNCHANGED payments
       ELSE IF r = HttpError
       THEN /\ tasks' = Replace(t, Ret(t, "midtrans charge failed", "failed"))
            /\ UNCHANGED payments
       ELSE /\ tasks' = Replace(t, [t EXCEPT !.pc = "cp_upd_find", !.row = NoRow,
                                      !.obs = Obs(t.order, r.status, r.txid, r.va,
                                                  r.bank, r.qr, r.expiry,
                                                  Payload(r.fraud))])
            /\ UNCHANGED payments
    /\ UNCHANGED <<orders, now, poller>>

\* The charge call returns r.  A transport error or a body that does not
\* parse returns the payment as created; a non-2xx answer stores the error
\* body with paymentRepo.Update of the payment as created; a charge response
\* goes on to updatePaymentFields.
CpCharge(t, r) ==
    /\ t.pc = "cp_charge"
    /\ IF r = GatewayFailure
       THEN /\ tasks' = Replace(t, RetWith(t, t.row, "", "degraded"))
            /\ UNCHANGED payments
       ELSE IF r = HttpError
       THEN LET payment == [t.row EXCEPT !.raw = Payload("")]
            IN /\ payments' = Update(payment)
               /\ tasks' = Replace(t, RetWith(t, payment, "", "degraded"))
       ELSE /\ tasks' = Replace(t, [t EXCEPT !.pc = "cp_upd_find", !.row = NoRow,
                                      !.obs = Obs(t.order, r.status, r.txid, r.va,
                                                  r.bank, r.qr, r.expiry,
                                                  Payload(r.fraud))])
            /\ UNCHANGED payments
    /\ UNCHANGED <<orders, now, poller>>

\* updatePaymentFields: paymentRepo.FindByID.
CpUpdFind(t) ==
    /\ t.pc = "cp_upd_find"
    /\ LET payment == FindByID(t.pid)
           r == Response(t.obs.status, t.obs.txid, t.obs.va, t.obs.bank,
                         t.obs.qr, t.obs.expiry, FraudOf(t.obs.raw))
       IN tasks' = Replace(t, [t EXCEPT !.pc = "cp_upd_save", !.obs = NoObs,
                                 !.row = updatePaymentFields(payment, r)])
    /\ UNCHANGED <<store, now, poller>>

\* updatePaymentFields: paymentRepo.Update.
CpUpdSave(t) ==
    /\ t.pc = "cp_upd_save"
    /\ payments' = Update(t.row)
    /\ tasks' = Replace(t, [t EXCEPT !.pc = "cp_reload", !.row = NoRow])
    /\ UNCHANGED <<orders, now, poller>>

\* The reload of the payment that is returned.
CpReload(t) ==
    /\ t.pc = "cp_reload"
    /\ tasks' = Replace(t, RetWith(t, FindByID(t.pid), "", "charged"))
    /\ UNCHANGED <<store, now, poller>>

----------------------------------------------------------------------------
(* The order service.  CreateOrder: one INSERT of an order, which is       *)
(* pending, under an id the table does not hold; the addresses, products   *)
(* and stock it reads and writes are not part of the model.                *)
(* UpdateOrderStatus: one UPDATE of the status column.                     *)

CreateOrder(orderID) ==
    /\ orderID \notin DOMAIN orders
    /\ orders' = orders @@ (orderID :> "pending")
    /\ UNCHANGED <<payments, tasks, now, poller>>

UpdateOrderStatus(orderID, status) ==
    /\ status \in OrderStatuses    \* validStatuses[status]
    /\ orderID \in DOMAIN orders
    /\ orders[orderID] # status
    /\ orders' = [orders EXCEPT ![orderID] = status]
    /\ UNCHANGED <<payments, tasks, now, poller>>

----------------------------------------------------------------------------
(* The clock.                                                              *)

Tick ==
    /\ now < MaxTime
    /\ now' = now + 1
    /\ UNCHANGED <<store, tasks, poller>>

----------------------------------------------------------------------------
(* The Poller: startBackgroundPaymentChecker and checkAllPendingPayments.  *)

\* Pollable without the filter on the transaction id.
PollableAnyTxid(p) ==
    /\ p.status = "pending"
    /\ p.createdAt > now - PollWindow

\* WHERE status = 'pending' AND created_at > now - 48h, then the filter on
\* the transaction id.
Pollable(p) ==
    /\ p.status = "pending"
    /\ p.createdAt > now - PollWindow
    /\ p.txid # ""

RECURSIVE SelectPollable(_)
SelectPollable(rows) ==
    IF rows = <<>> THEN <<>>
    ELSE IF Pollable(Head(rows))
         THEN <<Head(rows)>> \o SelectPollable(Tail(rows))
         ELSE SelectPollable(Tail(rows))

\* The orders in which a SELECT without ORDER BY may return the rows.
RECURSIVE Orderings(_)
Orderings(rows) ==
    IF rows = <<>> THEN {<<>>}
    ELSE UNION {{<<rows[i]>> \o rest :
                    rest \in Orderings(SubSeq(rows, 1, i - 1)
                                        \o SubSeq(rows, i + 1, Len(rows)))} :
                i \in DOMAIN rows}

\* The pending payments created in the last 48 hours that carry a
\* transaction id, in an order the database chooses: the lists the call
\* may return.
FindPendingPayments == Orderings(SelectPollable(payments))

\* IsExpired with After for Before.
IsExpiredAfter(payment) ==
    payment.expiry # NoTime /\ \E e \in payment.expiry : e > now

\* payment.ExpiryTime != nil && payment.ExpiryTime.Before(time.Now())
IsExpired(payment) ==
    payment.expiry # NoTime /\ \E e \in payment.expiry : e < now

\* A new sweep makes a new semaphore: the goroutines of earlier sweeps keep
\* the tokens of the old ones.
Retired(B) ==
    BagOfAll(LAMBDA t : IF t.sem = "cur" THEN [t EXCEPT !.sem = "old"] ELSE t, B)

\* The timer (or the end of the warm-up) starts checkAllPendingPayments,
\* which fetches the list and returns at once when it is empty.  Where the
\* ticker is followed the tick has been received before ("fetch");
\* elsewhere the receipt, which changes nothing else, is part of this step.
SweepStart ==
    /\ pollerPc \in {"warmup", "idle", "fetch"}
    /\ \E pendingPayments \in FindPendingPayments :
          IF pendingPayments = <<>>
          THEN /\ pollerPc' = "idle"
               /\ UNCHANGED <<sweepList, semaphore, tasks>>
          ELSE /\ pollerPc' = "sweep"
               /\ sweepList' = pendingPayments
               /\ semaphore' = 0
               /\ tasks' = Retired(tasks)
    /\ pollerLast' = "none"
    /\ UNCHANGED <<store, now>>

\* The send on the semaphore succeeds and the goroutine of the check of
\* the first payment of the list is started; the loop goes on to the next
\* payment.  maxTasks caps the handlers and goroutines alive at once in the
\* model.
Dispatch(maxTasks) ==
    /\ semaphore < SemaphoreCap
    /\ Running < maxTasks
    /\ semaphore' = semaphore + 1
    /\ tasks' = Add([NewTask("poll", "cf_find", Head(sweepList).orderID,
                             Head(sweepList).id, NoObs) EXCEPT !.sem = "cur"])
    /\ pollerLast' = "dispatched"
    /\ sweepList' = Tail(sweepList)
    /\ pollerPc' = IF Tail(sweepList) = <<>> THEN "idle" ELSE "sweep"
    /\ UNCHANGED payments

\* One iteration of the loop over the fetched payments: the tests of the
\* transaction id and of the deadline, then the expiry write, or the send
\* on the semaphore, which the loop waits in ("acquire") when the
\* semaphore is full.
SweepVisit(maxTasks) ==
    /\ pollerPc = "sweep"
    /\ sweepList # <<>>
    /\ LET payment == Head(sweepList)
           next == IF Tail(sweepList) = <<>> THEN "idle" ELSE "sweep"
       IN IF payment.txid = ""
          THEN /\ pollerLast' = "skipped"
               /\ sweepList' = Tail(sweepList)
               /\ pollerPc' = next
               /\ UNCHANGED <<payments, tasks, semaphore>>
          ELSE IF IsExpired(payment)
          THEN /\ payments' = Update([payment EXCEPT !.status = "expired"])
               /\ pollerLast' = "expired"
               /\ sweepList' = Tail(sweepList)
               /\ pollerPc' = next
               /\ UNCHANGED <<tasks, semaphore>>
          ELSE IF semaphore < SemaphoreCap
          THEN Dispatch(maxTasks)
          ELSE /\ pollerPc' = "acquire"
               /\ UNCHANGED <<payments, tasks, semaphore, sweepList, pollerLast>>
    /\ UNCHANGED <<orders, now>>

\* A token has been freed while the loop waited: the send on the semaphore
\* completes for the payment whose tests were made before the wait.
SweepAcquire(maxTasks) ==
    /\ pollerPc = "acquire"
    /\ Dispatch(maxTasks)
    /\ UNCHANGED <<orders, now>>

\* PollerStop with the dispatched checks cancelled.
PollerStopCancels ==
    /\ pollerPc = "idle"
    /\ pollerPc' = "stopped"
    /\ tasks' = [t \in {u \in TaskSet : u.kind # "poll"} |-> tasks[t]]
    /\ UNCHANGED <<store, now, sweepList, semaphore, pollerLast>>

\* The loop receives the stop signal in its select.
PollerStop ==
    /\ pollerPc = "idle"
    /\ pollerPc' = "stopped"
    /\ UNCHANGED <<store, tasks, now, sweepList, semaphore, pollerLast>>

\* TaskReturn with the token given back only by a check that succeeded.
TaskReturnKeepsToken(t) ==
    /\ t.pc = "ret"
    /\ t.kind # "callback"
    /\ tasks' = Remove(t)
    /\ semaphore' = IF t.kind = "poll" /\ t.sem = "cur" /\ t.err = ""
                    THEN semaphore - 1
                    ELSE semaphore
    /\ UNCHANGED <<store, now, pollerPc, sweepList, pollerLast>>

\* TaskReturn with the running sweep given up when a check has failed.
TaskReturnAborts(t) ==
    /\ t.pc = "ret"
    /\ t.kind # "callback"
    /\ tasks' = Remove(t)
    /\ semaphore' = IF t.kind = "poll" /\ t.sem = "cur" THEN semaphore - 1
                    ELSE semaphore
    /\ IF t.kind = "poll" /\ t.err # "" /\ pollerPc = "sweep"
       THEN pollerPc' = "idle" /\ sweepList' = <<>>
       ELSE UNCHANGED <<pollerPc, sweepList>>
    /\ UNCHANGED <<store, now, pollerLast>>

\* A handler returns; a goroutine of the running sweep gives its token back.
TaskReturn(t) ==
    /\ t.pc = "ret"
    /\ t.kind # "callback"
    /\ tasks' = Remove(t)
    /\ semaphore' = IF t.kind = "poll" /\ t.sem = "cur" THEN semaphore - 1
                    ELSE semaphore
    /\ UNCHANGED <<store, now, pollerPc, sweepList, pollerLast>>

----------------------------------------------------------------------------
(* The system.                                                             *)

\* The inputs of the specification of the reconciliation engine.
Notifications ==
    {Notification(o, x, s, v, "", "", NoTime, "") :
        o \in OrderIDs \cup {Missing}, x \in {"T1"},
        s \in {"pending", "settlement", "deny"}, v \in {"", "VA1"}}

StatusResponses ==
    {GatewayFailure} \cup
    {Response(s, "T1", "", "", "", NoTime, "") :
        s \in {"", "pending", "settlement"}}

AdminStatuses == {"shipped"}

\* The payments an order has after CreatePayment has charged the gateway.
ChargedRows ==
    {Row(1, o, "T1", "pending", v, "", "", e, Payload(""), "", 0) :
        o \in OrderIDs, v \in {"", "VA1"}, e \in {NoTime, {0}}}

NoHistory ==
    /\ orderWrites = 0
    /\ before = <<>>
    /\ afterFirst = <<>>
    /\ http = <<>>
    /\ ticker = 0
    /\ calls = <<>>

PollerInit ==
    /\ pollerPc = "warmup"
    /\ sweepList = <<>>
    /\ semaphore = 0
    /\ pollerLast = "none"

Init ==
    /\ payments \in {<<r>> : r \in ChargedRows}
    /\ orders = [o \in OrderIDs |-> "pending"]
    /\ tasks = EmptyBag
    /\ now = 0
    /\ PollerInit
    /\ NoHistory

(* The steps of the handlers, with the history left alone.                 *)

Quiet == UNCHANGED hist

RunUpFind == \E t \in TaskSet : UpFind(t) /\ Quiet
RunUpSave == \E t \in TaskSet : UpSave(t) /\ Quiet
RunUpOrderFind == \E t \in TaskSet : UpOrderFind(t) /\ Quiet
RunUpOrderSave == \E t \in TaskSet : UpOrderSave(t) /\ Quiet
RunCfFind == \E t \in TaskSet : CfFind(t) /\ Quiet
RunCsFind == \E t \in TaskSet : CsFind(t) /\ Quiet
RunCsReload == \E t \in TaskSet : CsReload(t) /\ Quiet
RunCpOrderFind == \E t \in TaskSet : CpOrderFind(t) /\ Quiet
RunCpFind == \E t \in TaskSet : CpFind(t) /\ Quiet
RunCpCreate == \E t \in TaskSet : CpCreate(t) /\ Quiet
RunCpUpdFind == \E t \in TaskSet : CpUpdFind(t) /\ Quiet
RunCpUpdSave == \E t \in TaskSet : CpUpdSave(t) /\ Quiet
RunCpReload == \E t \in TaskSet : CpReload(t) /\ Quiet
RunTaskReturn == \E t \in TaskSet : TaskReturn(t) /\ Quiet
RunSweepStart == SweepStart /\ Quiet
RunPollerStop == PollerStop /\ Quiet
RunTick == Tick /\ Quiet

(* The reconciliation engine: webhooks, synchronous checks, the Poller     *)
(* and its checks, and the order workflow, on an order that has been       *)
(* charged.                                                                *)

RunWebhook == \E n \in Notifications : Webhook(n) /\ Quiet
RunSyncCheck == \E id \in 1..(Len(payments) + 1) : SyncCheck(id) /\ Quiet
RunCfCall == \E t \in TaskSet : \E r \in StatusResponses : CfCall(t, r) /\ Quiet
RunSweepVisit == SweepVisit(MaxTasks) /\ Quiet
RunUpdateOrderStatus ==
    \E o \in OrderIDs, s \in AdminStatuses : UpdateOrderStatus(o, s) /\ Quiet

Next ==
    \/ RunWebhook
    \/ RunSyncCheck
    \/ RunUpFind
    \/ RunUpSave
    \/ RunUpOrderFind
    \/ RunUpOrderSave
    \/ RunCfFind
    \/ RunCfCall
    \/ RunCsFind
    \/ RunCsReload
    \/ RunTaskReturn
    \/ RunUpdateOrderStatus
    \/ RunSweepStart
    \/ RunSweepVisit
    \/ RunPollerStop
    \/ RunTick

Spec == Init /\ [][Next]_vars

----------------------------------------------------------------------------
(* N concurrent reconciliations that all report a status mapped to         *)
(* success, for an order that is pending: the state at the moment all N    *)
(* calls of UpdatePaymentStatus have been made.                            *)

SuccessCalls ==
    {[NewTask(k, "up_find", "", 0,
              Obs(o, s, "T1", v, "", "", NoTime, Payload("")))
         EXCEPT !.sem = IF k = "poll" THEN "old" ELSE "none"] :
        k \in {"webhook", "poll"}, o \in OrderIDs,
        s \in {"settlement", "capture"}, v \in {"", "VA1"}}

RECURSIVE BagsOf(_, _)
BagsOf(T, n) ==
    IF n = 0 THEN {EmptyBag}
    ELSE {B (+) SetToBag({t}) : B \in BagsOf(T, n - 1), t \in T}

InitAdvance ==
    /\ payments \in {<<r>> : r \in ChargedRows}
    /\ orders = [o \in OrderIDs |-> "pending"]
    /\ tasks \in UNION {BagsOf(SuccessCalls, n) : n \in 1..MaxRecon}
    /\ now = 0
    /\ PollerInit
    /\ NoHistory

CountUpOrderSave ==
    \E t \in TaskSet :
        /\ UpOrderSave(t)
        /\ orderWrites' = orderWrites + 1
        /\ UNCHANGED <<before, afterFirst, http, ticker, calls>>

NextAdvance ==
    \/ RunUpFind
    \/ RunUpSave
    \/ RunUpOrderFind
    \/ CountUpOrderSave
    \/ RunTaskReturn

SpecAdvance == InitAdvance /\ [][NextAdvance]_vars

\* C1: the N reconciliations save the order's status once in total, the
\* order is processing from that save on, and it has been saved when all
\* of them have returned.
AtMostOnceAdvance ==
    /\ orderWrites <= 1
    /\ orderWrites >= 1 => \A o \in DOMAIN orders : orders[o] = "processing"
    /\ tasks = EmptyBag => orderWrites = 1

----------------------------------------------------------------------------
(* UpdatePaymentStatus called twice in a row with the same arguments, on   *)
(* any stored payment, with nothing else running.                          *)

StoredRows ==
    {Row(1, o, x, st, v, b, q, e, rf[1], rf[2], 0) :
        o \in OrderIDs, x \in {"", "T1"}, st \in PaymentStatuses,
        v \in {"", "VA1"}, b \in {"", "bca"}, q \in {"", "QR1"},
        e \in {NoTime, {0}},
        rf \in {<<NoRaw, "">>, <<Payload("accept"), "accept">>}}

Observations ==
    {Obs(o, s, x, v, b, q, e, raw) :
        o \in OrderIDs, s \in {"pending", "settlement", "deny", "refund"},
        x \in {"", "T2"}, v \in {"", "VA2"}, b \in {"", "bni"},
        q \in {"", "QR2"}, e \in {NoTime, {1}},
        raw \in {NoRaw, Payload(""), Payload("deny")}}
    \cup {Obs(UnknownOrder, "settlement", "T2", "VA2", "", "", NoTime, Payload(""))}

Call(o) == NewTask("webhook", "up_find", "", 0, o)

InitMerge ==
    /\ payments \in {<<r>> : r \in StoredRows}
    /\ orders \in [OrderIDs -> {"pending", "shipped"}]
    /\ \E o \in Observations :
          /\ tasks = SetToBag({Call(o)})
          /\ before = <<[payments |-> payments, orders |-> orders, obs |-> o]>>
    /\ afterFirst = <<>>
    /\ orderWrites = 0
    /\ http = <<>>
    /\ ticker = 0
    /\ calls = <<>>
    /\ now = 0
    /\ PollerInit

\* The first call returns: the store is recorded.
FirstReturn ==
    \E t \in TaskSet :
        /\ afterFirst = <<>>
        /\ TaskReturn(t)
        /\ afterFirst' = <<[payments |-> payments, orders |-> orders,
                            err |-> t.err, again |-> FALSE]>>
        /\ UNCHANGED <<orderWrites, before, http, ticker, calls>>

\* The same call is made again.
SecondCall ==
    /\ tasks = EmptyBag
    /\ afterFirst # <<>>
    /\ ~afterFirst[1].again
    /\ tasks' = Add(Call(before[1].obs))
    /\ afterFirst' = <<[afterFirst[1] EXCEPT !.again = TRUE]>>
    /\ UNCHANGED <<store, now, poller, orderWrites, before, http, ticker, calls>>

SecondReturn ==
    \E t \in TaskSet :
        /\ afterFirst # <<>>
        /\ TaskReturn(t)
        /\ Quiet

NextMerge ==
    \/ RunUpFind
    \/ RunUpSave
    \/ RunUpOrderFind
    \/ RunUpOrderSave
    \/ FirstReturn
    \/ SecondCall
    \/ SecondReturn

SpecMerge == InitMerge /\ [][NextMerge]_vars

\* The second call has reached its return statement.
SecondDone ==
    /\ afterFirst # <<>>
    /\ afterFirst[1].again
    /\ \E t \in TaskSet : t.pc = "ret"

\* C4: when the second of two identical calls returns, the payments, the
\* orders and the returned error are what they were when the first returned.
ReconcileIdempotent ==
    SecondDone =>
        /\ payments = afterFirst[1].payments
        /\ orders = afterFirst[1].orders
        /\ \A t \in TaskSet : t.err = afterFirst[1].err

\* C4 witness: the second call has returned after a first call that changed
\* the payment and advanced the order.
ReconcileIdempotentWitness ==
    /\ SecondDone
    /\ before[1].payments # afterFirst[1].payments
    /\ before[1].orders # afterFirst[1].orders

\* C10: when the call has returned, each of VA number, bank code and QR URL
\* whose incoming value was empty and whose stored value was non-empty has
\* the value it had before the call.
PreserveIfEmpty ==
    afterFirst # <<>> =>
        \A i \in DOMAIN before[1].payments :
            LET b == before[1].payments[i]
                a == afterFirst[1].payments[i]
                o == before[1].obs
            IN /\ (o.va = "" /\ b.va # "") => a.va = b.va
               /\ (o.bank = "" /\ b.bank # "") => a.bank = b.bank
               /\ (o.qr = "" /\ b.qr # "") => a.qr = b.qr

\* C10 witness: a call with an empty VA number, bank code and QR URL has
\* returned after saving a payment that had all three, with a new status.
PreserveIfEmptyWitness ==
    /\ afterFirst # <<>>
    /\ before[1].obs.va = "" /\ before[1].obs.bank = "" /\ before[1].obs.qr = ""
    /\ before[1].payments[1].va # ""
    /\ before[1].payments[1].bank # ""
    /\ before[1].payments[1].qr # ""
    /\ afterFirst[1].payments[1].status # before[1].payments[1].status

----------------------------------------------------------------------------
(* The Poller and the checks it dispatches, with room for one more check   *)
(* than a semaphore holds, while the status API does not answer.           *)

SweepOrders == {"ORD-1", "ORD-2", "ORD-3"}

\* The status API does not answer: every status call ends in a timeout.
SweepResponses == {GatewayFailure}

\* Three pending payments that carry a transaction id, one per order.
InitSweep ==
    /\ payments = <<Row(1, "ORD-1", "T1", "pending", "", "", "", NoTime,
                        Payload(""), "", 0),
                    Row(2, "ORD-2", "T2", "pending", "", "", "", NoTime,
                        Payload(""), "", 0),
                    Row(3, "ORD-3", "T3", "pending", "", "", "", {0},
                        Payload(""), "", 0)>>
    /\ orders = [o \in SweepOrders |-> "pending"]
    /\ tasks = EmptyBag
    /\ now = 0
    /\ PollerInit
    /\ NoHistory

SweepCfCall ==
    \E t \in TaskSet : \E r \in SweepResponses : CfCall(t, r) /\ Quiet
SweepVisitMany == SweepVisit(SemaphoreCap + 1) /\ Quiet

NextSweep ==
    \/ RunSweepStart
    \/ SweepVisitMany
    \/ RunCfFind
    \/ SweepCfCall
    \/ RunTaskReturn
    \/ RunTick

SpecSweep == InitSweep /\ [][NextSweep]_vars

\* The status calls of the Poller's checks that are in flight.
InFlight ==
    BagCardinality([t \in {u \in TaskSet : u.kind = "poll" /\ u.pc = "cf_call"}
                       |-> CopiesIn(t, tasks)])

\* C5: at no instant are more than 5 status calls of the Poller's checks in
\* flight.
BoundedConcurrency == InFlight <= SemaphoreCap

----------------------------------------------------------------------------
(* CreatePayment, concurrent with itself, with webhooks and with the        *)
(* CreateOrder of a second order, on an order that has no payment yet.     *)

ChargeResponses ==
    {GatewayFailure, HttpError} \cup
    {Response("pending", "T1", v, "", "", e, "") :
        v \in {"", "VA1"}, e \in {NoTime, {0}}}

CreateNotifications ==
    {Notification(o, "T1", s, "", "", "", NoTime, "") :
        o \in OrderIDs, s \in {"settlement", "deny"}}

InitCreate ==
    /\ payments = <<>>
    /\ orders = [o \in OrderIDs |-> "pending"]
    /\ tasks = EmptyBag
    /\ now = 0
    /\ PollerInit
    /\ NoHistory

RunCreatePayment ==
    \E o \in OrderIDs \cup {UnknownOrder} : CreatePayment(o) /\ Quiet
RunCpCharge ==
    \E t \in TaskSet : \E r \in ChargeResponses : CpCharge(t, r) /\ Quiet
CreateWebhook == \E n \in CreateNotifications : Webhook(n) /\ Quiet
RunCreateOrder == CreateOrder(UnknownOrder) /\ Quiet

NextCreate ==
    \/ RunCreateOrder
    \/ RunCreatePayment
    \/ RunCpOrderFind
    \/ RunCpFind
    \/ RunCpCreate
    \/ RunCpCharge
    \/ RunCpUpdFind
    \/ RunCpUpdSave
    \/ RunCpReload
    \/ CreateWebhook
    \/ RunUpFind
    \/ RunUpSave
    \/ RunUpOrderFind
    \/ RunUpOrderSave
    \/ RunTaskReturn
    \/ RunTick

SpecCreate == InitCreate /\ [][NextCreate]_vars

\* C9: an order never has two payment rows, and a CreatePayment called
\* when the order had a payment returns that payment and no error.
OnePaymentPerOrder ==
    /\ \A o \in OrderIDs \cup {UnknownOrder} :
          Cardinality({i \in DOMAIN payments : payments[i].orderID = o}) <= 1
    /\ \A t \in TaskSet :
          (t.kind = "create" /\ t.pc = "ret" /\ t.had)
          => /\ t.err = ""
             /\ t.note = "existing"
             /\ t.pid = FindByOrderID(t.order).id

\* C9 witness: a CreatePayment that lost the race for the INSERT has
\* returned, and one that was called afterwards has returned the payment.
OnePaymentPerOrderWitness ==
    /\ \E t \in TaskSet : t.kind = "create" /\ t.pc = "ret" /\ t.note = "duplicate"
    /\ \E t \in TaskSet : t.kind = "create" /\ t.pc = "ret" /\ t.had
                          /\ t.note = "existing"

----------------------------------------------------------------------------
(* What a step did to the running handlers.                                *)

\* A task without its semaphore mark, which only the start of a sweep changes.
Core(t) == [t EXCEPT !.sem = "none"]
CoreCount(c, B) == CopiesIn(c, BagOfAll(Core, B))

\* The step is a step of handler t: one copy of t is gone.
Moved(t) == CoreCount(Core(t), tasks') < CoreCount(Core(t), tasks)

\* The states handlers are in after the step and were not in before it.
Arrived == {u \in BagToSet(tasks') :
               CoreCount(Core(u), tasks') > CoreCount(Core(u), tasks)}

\* CheckPaymentStatusFromMidtrans has returned to its caller.
CheckReturned(u) == u.pc \in {"ret", "cs_reload"}

----------------------------------------------------------------------------
(* Claims checked under Spec.                                              *)

\* C2: once the stored VA number, bank code or QR URL of a payment is
\* non-empty, no step stores it as empty.
MonotonicFillIn ==
    [][\A i \in DOMAIN payments :
          /\ payments[i].va # "" => payments'[i].va # ""
          /\ payments[i].bank # "" => payments'[i].bank # ""
          /\ payments[i].qr # "" => payments'[i].qr # ""]_vars

\* C3: a CheckPaymentStatusFromMidtrans that loads a payment whose stored
\* status is success returns without error, having started no gateway
\* call, and the step changes no payment and no order.
ForwardGuard ==
    [][\A t \in TaskSet :
          (/\ t.pc = "cf_find"
           /\ Moved(t)
           /\ FindByOrderNumber(t.order).status = "success")
          => /\ payments' = payments
             /\ orders' = orders
             /\ \A u \in Arrived : CheckReturned(u) /\ u.err = ""]_vars

\* C3 witness: a check of the Poller has returned from the guard while the
\* stored status is success.
ForwardGuardWitness ==
    \E t \in TaskSet :
        /\ t.kind = "poll" /\ t.pc = "ret" /\ t.note = "skipped" /\ t.err = ""
        /\ FindByOrderNumber(t.order).status = "success"

\* C6: once the stored status of a payment is success, failed, cancelled or
\* expired, no step changes it.
TerminalGuarded ==
    [][\A i \in DOMAIN payments :
          payments[i].status \in TerminalStatuses
          => payments'[i].status = payments[i].status]_vars

\* C7: every step of a handler that changes an order changes it from
\* pending to processing; an order past pending is left as it is.
OrderWriteGuard ==
    [][\A o \in DOMAIN orders :
          (orders'[o] # orders[o] /\ tasks' # tasks)
          => (orders[o] = "pending" /\ orders'[o] = "processing")]_vars

\* C8: when a sweep visits a pending payment that has a transaction id and
\* an expiry deadline in the past, the visit stores status expired for it
\* and dispatches no check.
ExpiryPrecedence ==
    [][(/\ pollerPc = "sweep"
        /\ sweepList # <<>>
        /\ sweepList' = Tail(sweepList)
        /\ Head(sweepList).status = "pending"
        /\ Head(sweepList).txid # ""
        /\ \E e \in Head(sweepList).expiry : e < now)
       => /\ payments'[Head(sweepList).id].status = "expired"
          /\ tasks' = tasks
          /\ semaphore' = semaphore]_vars

\* C8 witness: the last visit of a sweep stored the local expiry.
ExpiryPrecedenceWitness ==
    /\ pollerLast = "expired"
    /\ \E i \in DOMAIN payments : payments[i].status = "expired"

\* C11: every step that changes a stored payment is the paymentRepo.Update
\* of an UpdatePaymentStatus call.
SingleWriter ==
    [][payments' # payments
       => \E t \in TaskSet : t.pc = "up_save" /\ Moved(t)]_vars

----------------------------------------------------------------------------
(* The webhook endpoint.  The repository holds two MidtransCallback        *)
(* handlers: one runs HandleMidtransCallback in a goroutine and answers at *)
(* once, the other runs it inside the request and answers from its result. *)

MaxRequests == 2

\* A request body: the notification it holds when it parses as a JSON
\* object.
Body(json, n) == [json |-> json, n |-> n]

\* A request body that is not a JSON object.
Malformed ==
    Body(FALSE, Notification(Missing, Missing, "", "", "", "", NoTime, ""))

\* One request: its handler, its body, the status code of the response (0
\* while none is sent) and the number of goroutines the handler started.
Exchange(handler, body, code, dispatched) ==
    [handler |-> handler, body |-> body, code |-> code,
     dispatched |-> dispatched]

\* The handler that dispatches: ShouldBindJSON, go HandleMidtransCallback,
\* c.JSON(200).
MidtransCallbackAsync(body) ==
    /\ Len(http) < MaxRequests
    /\ IF body = Malformed
       THEN /\ http' = Append(http, Exchange("async", body, 400, 0))
            /\ UNCHANGED tasks
       ELSE /\ Running < MaxTasks
            /\ http' = Append(http, Exchange("async", body, 200, 1))
            /\ tasks' = Add(HandleMidtransCallback(body.n))
    /\ UNCHANGED <<store, now, poller, orderWrites, before, afterFirst, ticker, calls>>

\* The handler that waits: ShouldBindJSON, then HandleMidtransCallback in
\* the request.
MidtransCallback(body) ==
    /\ Len(http) < MaxRequests
    /\ IF body = Malformed
       THEN /\ http' = Append(http, Exchange("sync", body, 400, 0))
            /\ UNCHANGED tasks
       ELSE /\ Running < MaxTasks
            /\ http' = Append(http, Exchange("sync", body, 0, 0))
            /\ tasks' = Add([HandleMidtransCallback(body.n)
                               EXCEPT !.kind = "callback",
                                      !.req = Len(http) + 1])
    /\ UNCHANGED <<store, now, poller, orderWrites, before, afterFirst, ticker, calls>>

\* HandleMidtransCallback has returned to the handler that waits: 400 with
\* the error, or 200.
CallbackReturn(t) ==
    /\ t.pc = "ret"
    /\ t.kind = "callback"
    /\ tasks' = Remove(t)
    /\ http' = [http EXCEPT ![t.req].code = IF t.err = "" THEN 200 ELSE 400]
    /\ UNCHANGED <<store, now, poller, orderWrites, before, afterFirst, ticker, calls>>

HookNotifications ==
    {Notification(o, x, s, "", "", "", NoTime, "") :
        o \in OrderIDs \cup {UnknownOrder, Missing}, x \in {"T1", Missing},
        s \in {"settlement", "deny"}}

Bodies == {Malformed} \cup {Body(TRUE, n) : n \in HookNotifications}

RunMidtransCallbackAsync == \E body \in Bodies : MidtransCallbackAsync(body)
RunMidtransCallback == \E body \in Bodies : MidtransCallback(body)
RunCallbackReturn == \E t \in TaskSet : CallbackReturn(t)

NextWebhook ==
    \/ RunMidtransCallbackAsync
    \/ RunMidtransCallback
    \/ RunUpFind
    \/ RunUpSave
    \/ RunUpOrderFind
    \/ RunUpOrderSave
    \/ RunCallbackReturn
    \/ RunTaskReturn

SpecWebhook == Init /\ [][NextWebhook]_vars

\* C12: every response the webhook endpoint has sent is a 200.
AlwaysAcknowledged ==
    \A i \in DOMAIN http : http[i].code \in {0, 200}

\* C13: for every notification received, the handler has started one
\* reconciliation task and has sent the 200 in the step that received it.
FireAndForget ==
    \A i \in DOMAIN http :
        http[i].body # Malformed
        => http[i].dispatched = 1 /\ http[i].code = 200

\* The notification received in this step lacks order_id or transaction_id.
InvalidReceived ==
    /\ Len(http') = Len(http) + 1
    /\ http'[Len(http')].body # Malformed
    /\ \/ http'[Len(http')].body.n.order_id = Missing
       \/ http'[Len(http')].body.n.transaction_id = Missing

\* C14: HandleMidtransCallback on a notification without order_id or
\* transaction_id returns a validation error at once; UpdatePaymentStatus
\* is not entered, payments and orders stay as they are.
ValidationRejects ==
    [][InvalidReceived
       => /\ store' = store
          /\ Arrived # {}
          /\ \A u \in Arrived :
                /\ u.pc = "ret"
                /\ u.err \in {"invalid notification: missing order_id",
                              "invalid notification: missing transaction_id"}]_vars

\* C14 witness: a notification with an order_id and no transaction_id has
\* been received and its HandleMidtransCallback has returned the error.
ValidationRejectsWitness ==
    /\ \E i \in DOMAIN http :
          /\ http[i].body # Malformed
          /\ http[i].body.n.order_id \in OrderIDs
          /\ http[i].body.n.transaction_id = Missing
    /\ \E t \in TaskSet :
          /\ t.pc = "ret"
          /\ t.err = "invalid notification: missing transaction_id"

----------------------------------------------------------------------------
(* The Poller with its ticker and the checks it dispatches, under fair     *)
(* scheduling, for a payment about which the gateway sends no              *)
(* notification.                                                           *)

\* The payments CreatePayment leaves behind: charged (with a transaction
\* id) or not (the charge call failed), with or without an expiry deadline.
CreatedRows ==
    {Row(1, o, x, "pending", "", "", "", e, Payload(""), "", 0) :
        o \in OrderIDs, x \in {"", "T1"}, e \in {NoTime, {1}}}

ResolveResponses ==
    {GatewayFailure} \cup
    {Response(s, "T1", "", "", "", NoTime, "") :
        s \in {"pending", "settlement", "expire"}}

InitResolve ==
    /\ payments \in {<<r>> : r \in CreatedRows}
    /\ orders = [o \in OrderIDs |-> "pending"]
    /\ tasks = EmptyBag
    /\ now = 0
    /\ PollerInit
    /\ NoHistory

\* The ticker puts a tick in its channel, which holds one.
TickerFire ==
    /\ ticker = 0
    /\ ticker' = 1
    /\ UNCHANGED <<store, tasks, now, poller, orderWrites, before, afterFirst,
                   http, calls>>

\* The loop takes a tick from the channel and calls
\* checkAllPendingPayments.
TickReceive ==
    /\ pollerPc = "idle"
    /\ ticker = 1
    /\ ticker' = 0
    /\ pollerPc' = "fetch"
    /\ UNCHANGED <<store, tasks, now, sweepList, semaphore, pollerLast,
                   orderWrites, before, afterFirst, http, calls>>

\* The SELECT of checkAllPendingPayments, after the start-up sleep for the
\* first sweep and after the receipt of a tick for every later one.
TickedSweepStart ==
    /\ pollerPc \in {"warmup", "fetch"}
    /\ SweepStart
    /\ UNCHANGED <<ticker, orderWrites, before, afterFirst, http, calls>>

ResolveCfCall ==
    \E t \in TaskSet : \E r \in ResolveResponses : CfCall(t, r) /\ Quiet

NextResolve ==
    \/ TickerFire
    \/ TickReceive
    \/ TickedSweepStart
    \/ RunSweepVisit
    \/ RunCfFind
    \/ ResolveCfCall
    \/ RunUpFind
    \/ RunUpSave
    \/ RunUpOrderFind
    \/ RunUpOrderSave
    \/ RunTaskReturn
    \/ RunTick

\* The ticker keeps firing, the Poller and every started handler keep
\* taking their steps, every status call returns, time passes.
FairResolve ==
    /\ WF_vars(TickerFire)
    /\ WF_vars(TickReceive)
    /\ WF_vars(TickedSweepStart)
    /\ WF_vars(RunSweepVisit)
    /\ WF_vars(RunCfFind)
    /\ WF_vars(ResolveCfCall)
    /\ WF_vars(RunUpFind)
    /\ WF_vars(RunUpSave)
    /\ WF_vars(RunUpOrderFind)
    /\ WF_vars(RunUpOrderSave)
    /\ WF_vars(RunTaskReturn)
    /\ WF_vars(RunTick)

SpecResolve == InitResolve /\ [][NextResolve]_vars /\ FairResolve

\* C15: a payment created without a transaction id eventually has a
\* terminal status.
EventuallyResolved ==
    (\E i \in DOMAIN payments : payments[i].txid = "")
    => <>(\A i \in DOMAIN payments : payments[i].status \in TerminalStatuses)

----------------------------------------------------------------------------
(* mapMidtransStatusToPaymentStatus on its own.                            *)

MaxCalls == 2

\* Gateway statuses the function names, and strings it does not.
MapperInputs ==
    GatewayStatuses \cup
    {"authorize", "chargeback", "partial_refund", "failure", "success",
     "expired", "cancelled", "Settlement", "SETTLEMENT", " settlement"}

MapStatus(status) ==
    /\ Len(calls) < MaxCalls
    /\ calls' = Append(calls, [status |-> status,
                               result |-> mapMidtransStatusToPaymentStatus(status)])
    /\ UNCHANGED <<store, tasks, now, poller, orderWrites, before, afterFirst,
                   http, ticker>>

RunMapStatus == \E status \in MapperInputs : MapStatus(status)

NextMapper == RunMapStatus

SpecMapper == Init /\ [][NextMapper]_vars

\* C16: the result is pending for "pending", success for "settlement" and
\* "capture", failed for "deny", cancelled for "cancel", expired for
\* "expire", and pending for every other string.
StatusMapperTable ==
    \A i \in DOMAIN calls :
        LET c == calls[i]
        IN /\ c.status = "pending" => c.result = "pending"
           /\ c.status \in {"settlement", "capture"} => c.result = "success"
           /\ c.status = "deny" => c.result = "failed"
           /\ c.status = "cancel" => c.result = "cancelled"
           /\ c.status = "expire" => c.result = "expired"
           /\ c.status \notin {"pending", "settlement", "capture", "deny",
                               "cancel", "expire"} => c.result = "pending"

\* C16 witness: the function has been applied to "capture" and to a string
\* it does not name.
StatusMapperTableWitness ==
    /\ \E i \in DOMAIN calls : calls[i].status = "capture"
    /\ \E i \in DOMAIN calls : calls[i].status = "chargeback"

----------------------------------------------------------------------------
(* Claims checked under SpecCreate.                                        *)

\* C17: when the charge call of a CreatePayment fails (the call does not go
\* on to updatePaymentFields) and the stored row is still the row it
\* created, the call returns that payment with no error, and the row is
\* stored with status pending and no transaction id.
ChargeDegrades ==
    [][\A t \in TaskSet :
          (/\ t.pc = "cp_charge"
           /\ Moved(t)
           /\ payments[t.pid] = t.row
           /\ ~\E u \in Arrived : u.pc = "cp_upd_find")
          => /\ \E u \in Arrived :
                   u.kind = "create" /\ u.pc = "ret" /\ u.err = "" /\ u.pid = t.pid
             /\ Len(payments') = Len(payments)
             /\ payments'[t.pid].status = "pending"
             /\ payments'[t.pid].txid = ""]_vars

\* C17 witness: a CreatePayment whose charge call failed has returned the
\* payment it created, stored as pending without a transaction id.
ChargeDegradesWitness ==
    \E t \in TaskSet :
        /\ t.kind = "create" /\ t.pc = "ret" /\ t.note = "degraded"
        /\ t.err = "" /\ ~t.had
        /\ payments[t.pid].status = "pending"
        /\ payments[t.pid].txid = ""

----------------------------------------------------------------------------
(* Further claims checked under Spec.                                      *)

\* C18: no step of CheckPaymentStatusFromMidtrans up to the return of its
\* status call changes a payment or an order, and a status call that does
\* not yield a status (it failed, or the answer has no transaction_status)
\* returns an error to the caller, with every payment that was eligible for
\* a sweep still eligible.
FailedCheckNoOp ==
    [][\A t \in TaskSet :
          /\ (t.pc \in {"cf_find", "cf_call"} /\ Moved(t)) => store' = store
          /\ (t.pc = "cf_call" /\ Moved(t)
              /\ ~\E u \in Arrived : u.pc = "up_find")
             => /\ \E u \in Arrived : CheckReturned(u) /\ u.err # ""
                /\ \A i \in DOMAIN payments :
                      Pollable(payments[i]) => Pollable(payments'[i])]_vars

\* C18 witness: a check of the Poller has returned with a gateway error and
\* the payment is pending and eligible for the next sweep.
FailedCheckNoOpWitness ==
    \E t \in TaskSet :
        /\ t.kind = "poll" /\ t.pc = "ret" /\ t.note = "gwerror" /\ t.err # ""
        /\ FindByOrderNumber(t.order).status = "pending"
        /\ Pollable(FindByOrderNumber(t.order))

\* C24: the step that receives the stop signal leaves the store and every
\* running check as they are, and from then on the loop stays stopped:
\* no list of payments is fetched and no check is dispatched.
PollerStopFinal ==
    [][/\ (pollerPc # "stopped" /\ pollerPc' = "stopped")
          => /\ tasks' = tasks
             /\ store' = store
       /\ pollerPc = "stopped"
          => /\ pollerPc' = "stopped"
             /\ sweepList' = sweepList
             /\ \A u \in Arrived : ~(u.kind = "poll" /\ u.pc = "cf_find")]_vars

\* C24 witness: the loop has stopped while a check that a sweep dispatched
\* is about to save a status that the stored payment does not have.
PollerStopFinalWitness ==
    /\ pollerPc = "stopped"
    /\ \E t \in TaskSet :
          /\ t.kind = "poll" /\ t.pc = "up_save"
          /\ t.row.status = "success"
          /\ FindByID(t.row.id).status = "pending"
    /\ ENABLED RunUpSave

\* C27: an order that the reconciliation engine has advanced to processing
\* has a payment whose stored status is success.
ProcessingImpliesSuccess ==
    \A o \in DOMAIN orders :
        orders[o] = "processing" => FindByOrderNumber(o).status = "success"

\* C28: the visit of a sweep that marks a payment expired finds it stored
\* as pending, and changes nothing of the stored payment but its status.
ExpiryWriteOnPending ==
    [][(pollerPc = "sweep" /\ sweepList' # sweepList /\ payments' # payments)
       => LET id == Head(sweepList).id
          IN /\ payments[id].status = "pending"
             /\ payments'[id] = [payments[id] EXCEPT !.status = "expired"]]_vars

----------------------------------------------------------------------------
(* Further claims checked under SpecMerge.                                 *)

\* C19: a call of UpdatePaymentStatus for an order reference that no
\* payment carries returns an error and leaves payments and orders as they
\* were.
ReconcileNotFound ==
    (/\ afterFirst # <<>>
     /\ \A i \in DOMAIN before[1].payments :
           before[1].payments[i].orderID # before[1].obs.order)
    => /\ afterFirst[1].err # ""
       /\ afterFirst[1].payments = before[1].payments
       /\ afterFirst[1].orders = before[1].orders

\* C19 witness: a call for an order reference without a payment has
\* returned.
ReconcileNotFoundWitness ==
    /\ afterFirst # <<>>
    /\ before[1].obs.order = UnknownOrder
    /\ before[1].payments # <<>>
    /\ afterFirst[1].err = "payment not found"

----------------------------------------------------------------------------
(* One call of UpdatePaymentStatus on any stored payment, whose order row  *)
(* may be missing and whose order save may fail.                           *)

OrderTables ==
    {[o \in D |-> "pending"] : D \in {OrderIDs, {}}}

InitOrderFail ==
    /\ payments \in {<<r>> : r \in StoredRows}
    /\ orders \in OrderTables
    /\ \E o \in Observations :
          /\ tasks = SetToBag({Call(o)})
          /\ before = <<[payments |-> payments, orders |-> orders, obs |-> o]>>
    /\ afterFirst = <<>>
    /\ orderWrites = 0
    /\ http = <<>>
    /\ ticker = 0
    /\ calls = <<>>
    /\ now = 0
    /\ PollerInit

RunUpOrderSaveError == \E t \in TaskSet : UpOrderSaveError(t) /\ Quiet

NextOrderFail ==
    \/ RunUpFind
    \/ RunUpSave
    \/ RunUpOrderFind
    \/ RunUpOrderSave
    \/ RunUpOrderSaveError
    \/ FirstReturn

SpecOrderFail == InitOrderFail /\ [][NextOrderFail]_vars

\* The call was made for a stored payment with a status mapped to success.
SuccessCall ==
    /\ before[1].payments[1].orderID = before[1].obs.order
    /\ mapMidtransStatusToPaymentStatus(before[1].obs.status) = "success"

\* The call has returned and its order step failed: the order is missing,
\* or it was pending and still is.
OrderStepFailed ==
    /\ afterFirst # <<>>
    /\ SuccessCall
    /\ LET o == before[1].payments[1].orderID
       IN \/ o \notin DOMAIN before[1].orders
          \/ /\ before[1].orders[o] = "pending"
             /\ afterFirst[1].orders[o] = "pending"

\* C20: when UpdatePaymentStatus has saved a success status and its order
\* step fails, the call returns no error, and the payment stored when it
\* returns, and from then on, is the merged payment with status success.
OrderFailureIsolated ==
    OrderStepFailed
    => /\ afterFirst[1].err = ""
       /\ afterFirst[1].payments
             = <<MergePayment(before[1].payments[1], before[1].obs)>>
       /\ afterFirst[1].payments[1].status = "success"
       /\ payments = afterFirst[1].payments

\* C20 witness: the save of the order has failed after a payment that was
\* not success was saved as success, and the call has returned.
OrderFailureIsolatedWitness ==
    /\ OrderStepFailed
    /\ before[1].payments[1].orderID \in DOMAIN before[1].orders
    /\ before[1].payments[1].status = "pending"
    /\ payments[1].status = "success"
    /\ tasks = EmptyBag

----------------------------------------------------------------------------
(* CheckPaymentStatus, concurrent with itself and with webhooks, on a      *)
(* payment that was created with or without a transaction id.              *)

NextSync ==
    \/ RunSyncCheck
    \/ RunCsFind
    \/ RunCfFind
    \/ RunCfCall
    \/ RunUpFind
    \/ RunUpSave
    \/ RunUpOrderFind
    \/ RunUpOrderSave
    \/ RunCsReload
    \/ RunWebhook
    \/ RunTaskReturn

SpecSync == InitResolve /\ [][NextSync]_vars

\* C21: the step in which CheckPaymentStatus reads its payment writes
\* nothing; it goes on to the gateway re-check only when the payment it
\* read is pending and carries a transaction id, and for a payment read as
\* success, failed, cancelled or expired it returns that payment without
\* an error.
SyncOnlyPending ==
    [][\A t \in TaskSet :
          (t.kind = "sync" /\ t.pc = "cs_find" /\ Moved(t))
          => LET payment == FindByID(t.pid)
             IN /\ store' = store
                /\ (\E u \in Arrived : u.pc # "ret")
                   => /\ Found(payment)
                      /\ payment.status = "pending"
                      /\ payment.txid # ""
                /\ (Found(payment) /\ payment.status \in TerminalStatuses)
                   => \E u \in Arrived :
                         /\ u.pc = "ret"
                         /\ u.err = ""
                         /\ u.pid = payment.id]_vars

\* C21 witness: a CheckPaymentStatus has returned a payment whose stored
\* status is failed, without a re-check.
SyncOnlyPendingWitness ==
    \E t \in TaskSet :
        /\ t.kind = "sync" /\ t.pc = "ret" /\ t.note = "returned"
        /\ FindByID(t.pid).status = "failed"
        /\ FindByID(t.pid).txid # ""

\* C22: a CheckPaymentStatus for the id of a stored payment returns that
\* payment and no error, also after a re-check that failed; when the
\* payment it reads has no transaction id it returns at once and the store
\* is as it was.
SyncNeverFails ==
    [][\A t \in TaskSet :
          (t.kind = "sync" /\ Moved(t) /\ Found(FindByID(t.pid)))
          => /\ \A u \in Arrived :
                   u.pc = "ret" => u.err = "" /\ u.pid = t.pid
             /\ (t.pc = "cs_find" /\ FindByID(t.pid).txid = "")
                => /\ store' = store
                   /\ \E u \in Arrived : u.pc = "ret"]_vars

\* C22 witness: a CheckPaymentStatus whose re-check failed at the gateway
\* has returned the payment, still pending, without an error.
SyncNeverFailsWitness ==
    \E t \in TaskSet :
        /\ t.kind = "sync" /\ t.pc = "ret" /\ t.note = "gwerror"
        /\ t.err = ""
        /\ Found(FindByID(t.pid))
        /\ FindByID(t.pid).status = "pending"

----------------------------------------------------------------------------
(* Further claims checked under SpecResolve, where every step is a step of *)
(* the Poller, of a check it dispatched, of its ticker or of the clock.    *)

\* C23: the list a sweep works through holds only payments that were
\* stored as pending with a transaction id when the sweep fetched them;
\* every visit that expires a payment or dispatches a check is the visit of
\* such a payment and touches that payment only; and no step changes a
\* payment that is stored without a transaction id.
PollerEligibility ==
    [][/\ \A i \in DOMAIN sweepList' :
             /\ sweepList'[i].status = "pending"
             /\ sweepList'[i].txid # ""
       /\ (pollerPc # "sweep" /\ pollerPc' = "sweep")
          => \A i \in DOMAIN sweepList' :
                sweepList'[i] = payments[sweepList'[i].id]
       /\ (pollerPc \in {"sweep", "acquire"} /\ sweepList' # sweepList)
          => LET payment == Head(sweepList)
             IN /\ \A i \in DOMAIN payments :
                      payments'[i] # payments[i] => i = payment.id
                /\ \A u \in Arrived :
                      u.kind = "poll" /\ u.order = payment.orderID
       /\ \A i \in DOMAIN payments :
             payments[i].txid = "" => payments'[i] = payments[i]]_vars

\* C23 witness: a sweep has dispatched the check of a payment that carries
\* a transaction id, and the check has made its status call.
PollerEligibilityWitness ==
    /\ pollerLast = "dispatched"
    /\ \E t \in TaskSet :
          /\ t.kind = "poll" /\ t.pc = "up_find"
          /\ FindByID(t.pid).txid # ""
          /\ FindByID(t.pid).status = "pending"

----------------------------------------------------------------------------
(* The Poller over three payments while the status API does not answer,    *)
(* with the payments each sweep fetched and visited written down.          *)

IdsOf(rows) == [i \in DOMAIN rows |-> rows[i].id]

\* The start of a sweep: the ids of the fetched payments are recorded.
IsolateFetch ==
    /\ SweepStart
    /\ before' = IF pollerPc' = "sweep" THEN IdsOf(sweepList') ELSE <<>>
    /\ afterFirst' = <<>>
    /\ UNCHANGED <<orderWrites, http, ticker, calls>>

\* One iteration of the loop: the payment and what was done are recorded.
IsolateVisit ==
    /\ SweepVisit(SemaphoreCap + 1)
    /\ afterFirst' = IF sweepList' = sweepList THEN afterFirst
                     ELSE Append(afterFirst, [id |-> Head(sweepList).id,
                                              did |-> pollerLast'])
    /\ UNCHANGED <<orderWrites, before, http, ticker, calls>>

NextIsolate ==
    \/ IsolateFetch
    \/ IsolateVisit
    \/ RunCfFind
    \/ SweepCfCall
    \/ RunTaskReturn
    \/ RunTick

SpecIsolate == InitSweep /\ [][NextIsolate]_vars

\* The step is the start of a sweep.
FetchStep ==
    /\ pollerPc \in {"warmup", "idle", "fetch"}
    /\ \/ pollerPc' = "sweep"
       \/ pollerLast' # pollerLast
       \/ pollerPc' # pollerPc

\* The payments whose check, dispatched by the last sweep, has ended; in
\* SpecIsolate every check ends in a failure.
FailedIds ==
    {afterFirst[i].id : i \in {j \in DOMAIN afterFirst :
                                  afterFirst[j].did = "dispatched"}}
    \ {t.pid : t \in {u \in TaskSet : u.kind = "poll" /\ u.pc # "ret"}}

\* The step in which a check of the Poller fails changes neither the store
\* nor the sweep; every payment a visit dispatches gets its check; and the
\* visits of a sweep are the fetched payments in order, each expired or
\* dispatched.
IsolatedInSweep ==
    /\ \A t \in TaskSet :
          (t.kind = "poll" /\ Moved(t)
             /\ \E u \in Arrived : u.pc = "ret" /\ u.err # "")
          => /\ store' = store
             /\ poller' = poller
             /\ hist' = hist
    /\ (pollerPc = "sweep" /\ pollerLast' = "dispatched"
          /\ sweepList' # sweepList)
       => \E u \in Arrived : /\ u.kind = "poll"
                             /\ u.pid = Head(sweepList).id
                             /\ u.pc = "cf_find"
    /\ pollerPc' \in {"sweep", "idle"}
       => /\ IdsOf(afterFirst') \o IdsOf(sweepList') = before'
          /\ \A i \in DOMAIN afterFirst' :
                afterFirst'[i].did \in {"dispatched", "expired"}

\* C25, as stated: a failed check leaves the sweep to go on over the other
\* payments, and its payment is fetched again by the next sweep.
SweepFailureIsolatedAlways ==
    [][/\ IsolatedInSweep
       /\ FetchStep
          => \A id \in FailedIds : \E i \in DOMAIN before' : before'[i] = id]_vars

\* C25, amended: the payment of a failed check is fetched again by the next
\* sweep when it was created less than 48 hours before that sweep.
SweepFailureIsolated ==
    [][/\ IsolatedInSweep
       /\ FetchStep
          => \A id \in FailedIds :
                /\ payments'[id] = payments[id]
                /\ payments[id].createdAt > now - PollWindow
                   => \E i \in DOMAIN before' : before'[i] = id]_vars

\* C25 witness: a sweep has fetched again a payment whose check, dispatched
\* by an earlier sweep, failed at the gateway, after the earlier sweep had
\* visited every payment it fetched.
SweepFailureIsolatedWitness ==
    /\ pollerPc = "sweep"
    /\ Len(before) >= 2
    /\ \E t \in TaskSet :
          /\ t.kind = "poll" /\ t.pc = "ret" /\ t.note = "gwerror"
          /\ t.sem = "old"
          /\ \E i \in DOMAIN before :
                before[i] = FindByOrderNumber(t.order).id
          /\ FindByOrderNumber(t.order).status = "pending"

----------------------------------------------------------------------------
(* The charge request of CreatePayment: item_details and gross_amount,     *)
(* computed from the order that was loaded.  Amounts are integers small    *)
(* enough for the machine integers of the program not to wrap.             *)

\* An order item, and the order with its cost columns.
OrderItem(price, quantity) == [price |-> price, quantity |-> quantity]

OrderSnapshot(items, shipping, insurance, warranty, fee, discount, bonus, total) ==
    [items |-> items, shipping |-> shipping, insurance |-> insurance,
     warranty |-> warranty, fee |-> fee, discount |-> discount,
     bonus |-> bonus, total |-> total]

\* A MidtransItemDetail.
ItemDetail(id, price, quantity, category) ==
    [id |-> id, price |-> price, quantity |-> quantity, category |-> category]

\* The item_details: one line per order item, then the cost columns that
\* are greater than zero, discount and bonus with their sign turned.
ItemDetails(order) ==
    [i \in DOMAIN order.items |->
        ItemDetail("product", order.items[i].price, order.items[i].quantity,
                   "product")]
    \o (IF order.shipping > 0
        THEN <<ItemDetail("shipping", order.shipping, 1, "shipping")>>
        ELSE <<>>)
    \o (IF order.insurance > 0
        THEN <<ItemDetail("insurance", order.insurance, 1, "insurance")>>
        ELSE <<>>)
    \o (IF order.warranty > 0
        THEN <<ItemDetail("warranty", order.warranty, 1, "warranty")>>
        ELSE <<>>)
    \o (IF order.fee > 0
        THEN <<ItemDetail("service_fee", order.fee, 1, "fee")>>
        ELSE <<>>)
    \o (IF order.discount > 0
        THEN <<ItemDetail("discount", -order.discount, 1, "discount")>>
        ELSE <<>>)
    \o (IF order.bonus > 0
        THEN <<ItemDetail("bonus", -order.bonus, 1, "bonus")>>
        ELSE <<>>)

\* The loop grossAmount += item.Price * item.Quantity, from acc.
RECURSIVE AddLines(_, _)
AddLines(acc, itemDetails) ==
    IF itemDetails = <<>> THEN acc
    ELSE AddLines(acc + Head(itemDetails).price * Head(itemDetails).quantity,
                  Tail(itemDetails))

\* GrossAmount with the stored total of the order sent as it is.
GrossAmountStoredTotal(order) == order.total

\* The gross amount of the request.
GrossAmount(order) == AddLines(0, ItemDetails(order))

\* The MidtransChargeRequest, as far as amounts go.
ChargeData(order) ==
    [gross_amount |-> GrossAmount(order), item_details |-> ItemDetails(order)]

\* The orders a request is built for.
OrderSnapshots ==
    {OrderSnapshot(items, s, i, w, f, d, b, t) :
        items \in {<<>>, <<OrderItem(5, 2)>>,
                   <<OrderItem(5, 2), OrderItem(3, 1)>>},
        s \in {-1, 0, 2}, i \in {0, 1}, w \in {0, 4}, f \in {0, 1},
        d \in {-1, 0, 3}, b \in {0, 2}, t \in {10, 13}}

\* CreatePayment builds the request for an order; the order and the
\* request are recorded.
BuildCharge(order) ==
    /\ calls' = <<[order |-> order, request |-> ChargeData(order)]>>
    /\ UNCHANGED <<store, tasks, now, poller, orderWrites, before, afterFirst,
                   http, ticker>>

RunBuildCharge == \E order \in OrderSnapshots : BuildCharge(order)

NextGross == RunBuildCharge

SpecGross == Init /\ [][NextGross]_vars

\* The amount x when it is greater than zero, else zero.
Pos(x) == IF x > 0 THEN x ELSE 0

\* The sum of price times quantity over the first n lines.
RECURSIVE SumTo(_, _)
SumTo(lines, n) ==
    IF n = 0 THEN 0
    ELSE SumTo(lines, n - 1) + lines[n].price * lines[n].quantity

\* C26: the gross amount of a request is the sum of price times quantity
\* over the lines of the request, which is the order items plus shipping,
\* insurance, warranty and service fee minus discount and bonus; the lines
\* of the costs are positive, those of discount and bonus negative; and
\* the stored total of the order has no part in it.
GrossAmountIsSum ==
    \A k \in DOMAIN calls :
        LET order == calls[k].order
            request == calls[k].request
            lines == request.item_details
        IN /\ request.gross_amount = SumTo(lines, Len(lines))
           /\ request.gross_amount
                 = SumTo(order.items, Len(order.items))
                   + Pos(order.shipping) + Pos(order.insurance)
                   + Pos(order.warranty) + Pos(order.fee)
                   - Pos(order.discount) - Pos(order.bonus)
           /\ \A i \in DOMAIN lines :
                 /\ lines[i].category \in {"shipping", "insurance",
                                           "warranty", "fee"}
                    => lines[i].price > 0 /\ lines[i].quantity = 1
                 /\ lines[i].category \in {"discount", "bonus"}
                    => lines[i].price < 0 /\ lines[i].quantity = 1

\* C26 witness: a request was built for an order with two items, every
\* cost, a discount and a bonus, whose stored total is not the sum.
GrossAmountIsSumWitness ==
    \E k \in DOMAIN calls :
        LET order == calls[k].order
        IN /\ Len(order.items) = 2
           /\ order.shipping > 0 /\ order.insurance > 0 /\ order.warranty > 0
           /\ order.fee > 0 /\ order.discount > 0 /\ order.bonus > 0
           /\ order.total # calls[k].request.gross_amount
           /\ Len(calls[k].request.item_details) = 8

----------------------------------------------------------------------------
(* The Poller and its ticker under fair scheduling while the gateway       *)
(* answers every status call with settlement, with at most MaxRequests     *)
(* stale notifications delivered to the webhook endpoint.  The clock       *)
(* stands still: the payment stays inside the 48 hours of the fetch and    *)
(* its expiry deadline does not pass.                                      *)

ConvergeResponses == {Response("settlement", "T1", "", "", "", NoTime, "")}

\* Notifications the gateway sent before the settlement.
StaleBodies ==
    {Body(TRUE, Notification(o, "T1", s, "", "", "", NoTime, "")) :
        o \in OrderIDs, s \in {"pending", "deny"}}

ConvergeCfCall ==
    \E t \in TaskSet : \E r \in ConvergeResponses : CfCall(t, r) /\ Quiet

StaleWebhook == \E body \in StaleBodies : MidtransCallbackAsync(body)

NextConverge ==
    \/ TickerFire
    \/ TickReceive
    \/ TickedSweepStart
    \/ RunSweepVisit
    \/ RunCfFind
    \/ ConvergeCfCall
    \/ RunUpFind
    \/ RunUpSave
    \/ RunUpOrderFind
    \/ RunUpOrderSave
    \/ RunTaskReturn
    \/ StaleWebhook

\* The ticker keeps firing, the Poller and every started handler keep
\* taking their steps, every status call returns.
FairConverge ==
    /\ WF_vars(TickerFire)
    /\ WF_vars(TickReceive)
    /\ WF_vars(TickedSweepStart)
    /\ WF_vars(RunSweepVisit)
    /\ WF_vars(RunCfFind)
    /\ WF_vars(ConvergeCfCall)
    /\ WF_vars(RunUpFind)
    /\ WF_vars(RunUpSave)
    /\ WF_vars(RunUpOrderFind)
    /\ WF_vars(RunUpOrderSave)
    /\ WF_vars(RunTaskReturn)

SpecConverge == Init /\ [][NextConverge]_vars /\ FairConverge

\* C29: the payment is eventually stored as success for good, and its
\* order is eventually processing.
ConvergesToSuccess ==
    /\ <>[](\A i \in DOMAIN payments : payments[i].status = "success")
    /\ <>(\A o \in DOMAIN orders : orders[o] = "processing")

----------------------------------------------------------------------------
(* The first sweep of the Poller over one payment more than its semaphore  *)
(* holds tokens, under fair scheduling, every status call returning with a *)
(* failure or with the status pending.                                     *)

LimiterOrders == {"ORD-1", "ORD-2", "ORD-3", "ORD-4", "ORD-5", "ORD-6"}

LimiterResponses ==
    {GatewayFailure, Response("pending", "T1", "", "", "", NoTime, "")}

\* Six pending payments that carry a transaction id, one per order.
InitLimiter ==
    /\ payments = <<Row(1, "ORD-1", "T1", "pending", "", "", "", NoTime,
                        Payload(""), "", 0),
                    Row(2, "ORD-2", "T1", "pending", "", "", "", NoTime,
                        Payload(""), "", 0),
                    Row(3, "ORD-3", "T1", "pending", "", "", "", NoTime,
                        Payload(""), "", 0),
                    Row(4, "ORD-4", "T1", "pending", "", "", "", NoTime,
                        Payload(""), "", 0),
                    Row(5, "ORD-5", "T1", "pending", "", "", "", NoTime,
                        Payload(""), "", 0),
                    Row(6, "ORD-6", "T1", "pending", "", "", "", NoTime,
                        Payload(""), "", 0)>>
    /\ orders = [o \in LimiterOrders |-> "pending"]
    /\ tasks = EmptyBag
    /\ now = 0
    /\ PollerInit
    /\ NoHistory

LimiterCfCall ==
    \E t \in TaskSet : \E r \in LimiterResponses : CfCall(t, r) /\ Quiet

\* The sweep that follows the start-up sleep.
FirstSweepStart ==
    /\ pollerPc = "warmup"
    /\ SweepStart
    /\ Quiet

SweepAcquireMany == SweepAcquire(SemaphoreCap + 1) /\ Quiet

NextLimiter ==
    \/ FirstSweepStart
    \/ SweepVisitMany
    \/ SweepAcquireMany
    \/ RunCfFind
    \/ LimiterCfCall
    \/ RunUpFind
    \/ RunUpSave
    \/ RunTaskReturn

\* The loop of a sweep and every dispatched check keep taking their steps,
\* and every status call returns.
FairLimiter ==
    /\ WF_vars(SweepVisitMany)
    /\ WF_vars(SweepAcquireMany)
    /\ WF_vars(RunCfFind)
    /\ WF_vars(LimiterCfCall)
    /\ WF_vars(RunUpFind)
    /\ WF_vars(RunUpSave)
    /\ WF_vars(RunTaskReturn)

SpecLimiter == InitLimiter /\ [][NextLimiter]_vars /\ FairLimiter

\* C30: every sweep ends with the Poller idle; and a check of the running
\* sweep that ends, with or without an error, gives its token back.
SweepTerminates ==
    /\ (pollerPc \in {"sweep", "acquire"}) ~> (pollerPc = "idle")
    /\ [][\A t \in TaskSet :
             (/\ t.kind = "poll" /\ t.pc = "ret" /\ t.sem = "cur"
              /\ CopiesIn(t, tasks') < CopiesIn(t, tasks)
              /\ BagCardinality(tasks') < BagCardinality(tasks))
             => semaphore' = semaphore - 1]_vars

\* C30 witness: the loop of a sweep waits for a token while five checks
\* hold the five there are, one of them ended with an error and about to
\* return.
SweepTerminatesWitness ==
    /\ pollerPc = "acquire"
    /\ sweepList # <<>>
    /\ semaphore = SemaphoreCap
    /\ \E t \in TaskSet :
          t.kind = "poll" /\ t.pc = "ret" /\ t.sem = "cur" /\ t.err # ""

====
